---- MODULE Spec2Model ----
(***************************************************************************)
(* Model of signalfx/resource_signalfx_single_value_chart.go: the schema   *)
(* of the single value chart resource, the construction of its JSON        *)
(* payload, and the four CRUD handlers built on the shared helpers.        *)
(*                                                                         *)
(* A schema field of the ResourceData is a sequence: <<>> when the field   *)
(* was never set, <<v>> when it was set to v (v may be the zero value).    *)
(* A payload is a function from remote keys to values; a key that is not   *)
(* in its DOMAIN is absent from the JSON object.                           *)
(***************************************************************************)
EXTENDS Integers, Sequences, FiniteSets, TLC

VARIABLES d, last, remote, nextId

vars == <<d, last, remote, nextId>>

(***************************************************************************)
(* Bounds                                                                  *)
(***************************************************************************)
MaxColorScale == 1
MaxVizOptions == 1
MaxIds == 2
MaxTime == 1

(***************************************************************************)
(* Go's int, on a 32-bit build of the provider (GOARCH=386, arm).          *)
(* `val.(int) * 1000` wraps around silently; MulWrap computes the wrapped  *)
(* product without ever leaving the range.                                 *)
(***************************************************************************)
MaxInt == 2147483647
MinInt == (-MaxInt) - 1

AddWrap(a, b) ==
    IF a > 0 /\ b > 0 /\ a > MaxInt - b
        THEN (a - MaxInt - 1) + (b - MaxInt - 1)
    ELSE IF a < 0 /\ b < 0 /\ a < MinInt - b
        THEN (a + MaxInt + 1) + (b + MaxInt + 1)
    ELSE a + b

RECURSIVE MulWrap(_, _)
MulWrap(v, n) ==
    IF n = 0 THEN 0
    ELSE IF n % 2 = 1 THEN AddWrap(v, MulWrap(v, n - 1))
    ELSE LET h == MulWrap(v, n \div 2) IN AddWrap(h, h)

(***************************************************************************)
(* The schema (singleValueChartResource)                                   *)
(***************************************************************************)
StringFields == {"name", "program_text", "description", "unit_prefix",
                 "color_by", "secondary_visualization"}
IntFields == {"max_delay", "refresh_interval", "max_precision"}
BoolFields == {"is_timestamp_hidden", "show_spark_line"}
SetFields == {"color_scale", "viz_options"}

\* the schema's Default of a field, or the zero value of its type
ZeroValue(key) ==
    IF key \in StringFields THEN ""
    ELSE IF key \in IntFields THEN 0
    ELSE IF key \in BoolFields THEN FALSE
    ELSE {}

\* the smallest refresh_interval whose product with 1000 leaves the int range
BigInterval == (MaxInt \div 1000) + 1

ColorScaleEntries == {[color |-> "blue", gt |-> i] : i \in 1..MaxColorScale}
VizOptionEntries == {[label |-> i, color |-> "green"] : i \in 1..MaxVizOptions}

Opt(S) == {<<>>} \cup {<<v>> : v \in S}

\* the field values a configuration can give a resource instance
Configs ==
    [name : {<<"x">>},
     program_text : {<<"data('cpu').publish()">>},
     description : Opt({"", "desc"}),
     unit_prefix : Opt({"", "Binary"}),
     color_by : Opt({"", "Metric", "Scale"}),
     max_delay : Opt({0, 5}),
     refresh_interval : Opt({0, 1, BigInterval}),
     max_precision : Opt({0, 2}),
     is_timestamp_hidden : Opt(BOOLEAN),
     show_spark_line : Opt(BOOLEAN),
     secondary_visualization : Opt({"", "Radial"}),
     color_scale : {<<S>> : S \in SUBSET ColorScaleEntries},
     viz_options : {<<S>> : S \in SUBSET VizOptionEntries}]

\* the configurations the lifecycle is explored with
LifecycleConfigs ==
    {c \in Configs :
        /\ c.description \in Opt({"desc"})
        /\ c.max_delay \in Opt({5})
        /\ c.unit_prefix = <<>>
        /\ c.color_by = <<>>
        /\ c.refresh_interval = <<>>
        /\ c.max_precision = <<>>
        /\ c.is_timestamp_hidden = <<>>
        /\ c.show_spark_line = <<>>
        /\ c.secondary_visualization = <<>>
        /\ c.color_scale = <<{}>>}

\* a new ResourceData: the configured fields, no identifier, nothing computed
NewResourceData(c) ==
    [f \in DOMAIN c \cup {"id", "url", "last_updated"} |->
        IF f \in DOMAIN c THEN c[f] ELSE <<>>]

(***************************************************************************)
(* schema.ResourceData accessors                                           *)
(***************************************************************************)
\* d.Get(key): the value, or the default / zero value when never set
Get(rd, key) == IF rd[key] = <<>> THEN ZeroValue(key) ELSE rd[key][1]

\* d.GetOk(key): ok only when the key was set to a non-zero value
GetOk(rd, key) ==
    [val |-> Get(rd, key),
     ok |-> rd[key] # <<>> /\ rd[key][1] # ZeroValue(key)]

(***************************************************************************)
(* Payload construction                                                    *)
(***************************************************************************)
RECURSIVE SetToSeq(_)
SetToSeq(S) ==
    IF S = {} THEN <<>>
    ELSE LET e == CHOOSE x \in S : TRUE IN <<e>> \o SetToSeq(S \ {e})

\* one payload map per color_scale entry
getColorScaleOptions(rd) == SetToSeq(Get(rd, "color_scale"))

\* one payload map per viz_options entry
getPerSignalVizOptions(rd) == SetToSeq(Get(rd, "viz_options"))

\* viz[key] = val
Put(viz, key, val) == (key :> val) @@ viz

\* if val, ok := d.GetOk("unit_prefix"); ok { viz["unitPrefix"] = val }
unitPrefixOption_AlwaysSent(viz, rd) ==
    Put(viz, "unitPrefix", Get(rd, "unit_prefix"))

unitPrefixOption(viz, rd) ==
    LET unitPrefix == GetOk(rd, "unit_prefix")
    IN  IF unitPrefix.ok THEN Put(viz, "unitPrefix", unitPrefix.val) ELSE viz

\* the color_by selector: "Scale" attaches colorBy and colorScale2, but only
\* when there is at least one color_scale entry; any other value is attached
\* as the flat colorBy
colorByOption_ScaleWithoutColorBy(viz, rd) ==
    LET colorBy == GetOk(rd, "color_by")
        colorScaleOptions == getColorScaleOptions(rd)
    IN  IF ~colorBy.ok THEN viz
        ELSE IF colorBy.val = "Scale"
            THEN IF Len(colorScaleOptions) > 0
                     THEN Put(viz, "colorScale2", colorScaleOptions)
                     ELSE viz
        ELSE Put(viz, "colorBy", colorBy.val)

colorByOption(viz, rd) ==
    LET colorBy == GetOk(rd, "color_by")
        colorScaleOptions == getColorScaleOptions(rd)
    IN  IF ~colorBy.ok THEN viz
        ELSE IF colorBy.val = "Scale"
            THEN IF Len(colorScaleOptions) > 0
                     THEN Put(Put(viz, "colorBy", "Scale"),
                              "colorScale2", colorScaleOptions)
                     ELSE viz
        ELSE Put(viz, "colorBy", colorBy.val)

\* programOptions["maxDelay"] = val.(int) * 1000
maxDelayOption_Seconds(viz, rd) ==
    LET maxDelay == GetOk(rd, "max_delay")
    IN  IF maxDelay.ok
            THEN Put(viz, "programOptions", "maxDelay" :> maxDelay.val)
            ELSE viz

maxDelayOption(viz, rd) ==
    LET maxDelay == GetOk(rd, "max_delay")
    IN  IF maxDelay.ok
            THEN Put(viz, "programOptions",
                     "maxDelay" :> MulWrap(maxDelay.val, 1000))
            ELSE viz

\* viz["refreshInterval"] = refreshInterval.(int) * 1000
refreshIntervalOption(viz, rd) ==
    LET refreshInterval == GetOk(rd, "refresh_interval")
    IN  IF refreshInterval.ok
            THEN Put(viz, "refreshInterval", MulWrap(refreshInterval.val, 1000))
            ELSE viz

maxPrecisionOption(viz, rd) ==
    LET maxPrecision == GetOk(rd, "max_precision")
    IN  IF maxPrecision.ok
            THEN Put(viz, "maximumPrecision", maxPrecision.val)
            ELSE viz

secondaryVisualizationOption(viz, rd) ==
    LET val == GetOk(rd, "secondary_visualization")
    IN  IF val.ok /\ val.val # ""
            THEN Put(viz, "secondaryVisualization", val.val)
            ELSE viz

\* timestampHidden and showSparkLine are read with d.Get and always attached
displayFlags_OnlyWhenTrue(viz, rd) ==
    LET hidden == GetOk(rd, "is_timestamp_hidden")
        spark == GetOk(rd, "show_spark_line")
        viz1 == IF hidden.ok THEN Put(viz, "timestampHidden", hidden.val) ELSE viz
    IN  IF spark.ok THEN Put(viz1, "showSparkLine", spark.val) ELSE viz1

displayFlags(viz, rd) ==
    Put(Put(viz, "timestampHidden", Get(rd, "is_timestamp_hidden")),
        "showSparkLine", Get(rd, "show_spark_line"))

getSingleValueChartOptions(rd) ==
    LET viz0 == "type" :> "SingleValue"
        viz1 == unitPrefixOption(viz0, rd)
        viz2 == colorByOption(viz1, rd)
        viz3 == maxDelayOption(viz2, rd)
        viz4 == refreshIntervalOption(viz3, rd)
        viz5 == maxPrecisionOption(viz4, rd)
        viz6 == secondaryVisualizationOption(viz5, rd)
    IN  displayFlags(viz6, rd)

\* the payload without the guard on the number of viz_options entries
getPayloadSingleValueChart_EmptyList(rd) ==
    LET payload == ("name" :> Get(rd, "name"))
                   @@ ("description" :> Get(rd, "description"))
                   @@ ("programText" :> Get(rd, "program_text"))
        viz == Put(getSingleValueChartOptions(rd), "publishLabelOptions",
                   getPerSignalVizOptions(rd))
    IN  Put(payload, "options", viz)

\* the map handed to json.Marshal
getPayloadSingleValueChart(rd) ==
    LET payload == ("name" :> Get(rd, "name"))
                   @@ ("description" :> Get(rd, "description"))
                   @@ ("programText" :> Get(rd, "program_text"))
        viz == getSingleValueChartOptions(rd)
        vizOptions == getPerSignalVizOptions(rd)
        viz1 == IF Len(vizOptions) > 0
                    THEN Put(viz, "publishLabelOptions", vizOptions)
                    ELSE viz
    IN  IF Cardinality(DOMAIN viz1) > 0
            THEN Put(payload, "options", viz1)
            ELSE payload

(***************************************************************************)
(* Shared helpers of the provider used by the handlers                     *)
(***************************************************************************)
CHART_API_PATH == "CHART_API_PATH"
CHART_APP_PATH == "CHART_APP_PATH"

\* buildURL(config.APIURL, path, {}): fails when the configured URL is bad
buildURL(ok, path) ==
    [err |-> ~ok, url |-> [base |-> "APIURL", path |-> path]]

\* buildAppURL(config.CustomAppURL, fragment)
buildAppURL(ok, fragment) ==
    [err |-> ~ok, url |-> [base |-> "CustomAppURL", path |-> fragment]]

\* json.Marshal(payload)
jsonMarshal(ok, payload) == [err |-> ~ok, bytes |-> payload]

\* resourceCreate: POST; on success the remote identifier and the
\* last-updated timestamp are stored in the ResourceData
resourceCreate(ok, rd, newId, t) ==
    [err |-> ~ok,
     d |-> IF ok THEN [rd EXCEPT !.id = newId, !.last_updated = <<t>>]
                 ELSE rd]

\* resourceRead: GET by identifier; refreshes what the remote system supplies
resourceRead(ok, rd, t) ==
    [err |-> ~ok,
     d |-> IF ok THEN [rd EXCEPT !.last_updated = <<t>>] ELSE rd]

\* resourceUpdate: PUT by identifier; on success refreshes computed fields
resourceUpdate(ok, rd, t) ==
    [err |-> ~ok,
     d |-> IF ok THEN [rd EXCEPT !.last_updated = <<t>>] ELSE rd]

\* resourceDelete: DELETE by identifier; on success the identifier and the
\* computed fields are discarded
resourceDelete(ok, rd) ==
    [err |-> ~ok,
     d |-> IF ok THEN [rd EXCEPT !.id = <<>>, !.url = <<>>,
                                 !.last_updated = <<>>]
                 ELSE rd]

(***************************************************************************)
(* The record of the last handler call: the steps it ran, in order, the    *)
(* error it returned ("" for nil), and what it handed to the transport.    *)
(***************************************************************************)
Return(op, steps, err, payload, url) ==
    [op |-> op, steps |-> steps, err |-> err, payload |-> payload, url |-> url]

NoCall == Return("none", <<>>, "", <<>>, <<>>)

\* the identifier of the n-th object the remote system creates
RemoteId(n) == <<"chart", n>>

\* what Create submits: the payload, to the collection URL
CreateRequest(rd) ==
    [payload |-> getPayloadSingleValueChart(rd), path |-> <<CHART_API_PATH>>]

\* an Update that submits only the keys that differ from the remote object
UpdateRequest_Patch(rd) ==
    LET full == getPayloadSingleValueChart(rd)
        keys == IF remote = <<>> THEN DOMAIN full
                ELSE {k \in DOMAIN full :
                        \/ k \notin DOMAIN remote[1].payload
                        \/ remote[1].payload[k] # full[k]}
    IN  [payload |-> [k \in keys |-> full[k]],
         path |-> <<CHART_API_PATH, rd.id>>]

\* what Update submits: the payload rebuilt from the current field values,
\* to the URL of the object
UpdateRequest(rd) ==
    [payload |-> getPayloadSingleValueChart(rd),
     path |-> <<CHART_API_PATH, rd.id>>]

(***************************************************************************)
(* Handlers                                                                *)
(***************************************************************************)
singlevaluechartCreate(marshalOk, apiOk, transportOk, appOk, t) ==
    /\ d.id = <<>>
    /\ nextId <= MaxIds
    /\ LET payload == jsonMarshal(marshalOk, CreateRequest(d).payload)
           url == buildURL(apiOk, CreateRequest(d).path)
           created == resourceCreate(transportOk, d, RemoteId(nextId), t)
           appURL == buildAppURL(appOk, <<CHART_APP_PATH, created.d.id>>)
       IN  IF payload.err
               THEN /\ last' = Return("Create", <<"payload">>, "payload",
                                      <<>>, <<>>)
                    /\ UNCHANGED <<d, remote, nextId>>
           ELSE IF url.err
               THEN /\ last' = Return("Create", <<"payload", "url">>, "url",
                                      <<>>, <<>>)
                    /\ UNCHANGED <<d, remote, nextId>>
           ELSE IF created.err
               THEN /\ last' = Return("Create",
                                      <<"payload", "url", "transport">>,
                                      "transport",
                                      <<payload.bytes>>, <<url.url>>)
                    /\ UNCHANGED <<d, remote, nextId>>
           ELSE /\ remote' = <<[id |-> RemoteId(nextId), payload |-> payload.bytes]>>
                /\ nextId' = nextId + 1
                /\ IF appURL.err
                       THEN /\ last' = Return("Create",
                                   <<"payload", "url", "transport", "appurl">>,
                                   "appurl", <<payload.bytes>>, <<url.url>>)
                            /\ d' = created.d
                       ELSE /\ last' = Return("Create",
                                   <<"payload", "url", "transport", "appurl">>,
                                   "", <<payload.bytes>>, <<url.url>>)
                            /\ d' = [created.d EXCEPT !.url = <<appURL.url>>]

singlevaluechartRead(apiOk, transportOk, t) ==
    /\ d.id # <<>>
    /\ LET url == buildURL(apiOk, <<CHART_API_PATH, d.id>>)
           read == resourceRead(transportOk, d, t)
       IN  IF url.err
               THEN /\ last' = Return("Read", <<"url">>, "url", <<>>, <<>>)
                    /\ UNCHANGED <<d, remote, nextId>>
           ELSE /\ last' = Return("Read", <<"url", "transport">>,
                                  IF read.err THEN "transport" ELSE "",
                                  <<>>, <<url.url>>)
                /\ d' = read.d
                /\ UNCHANGED <<remote, nextId>>

singlevaluechartUpdate(marshalOk, apiOk, transportOk, t) ==
    /\ d.id # <<>>
    /\ LET payload == jsonMarshal(marshalOk, UpdateRequest(d).payload)
           url == buildURL(apiOk, UpdateRequest(d).path)
           updated == resourceUpdate(transportOk, d, t)
       IN  IF payload.err
               THEN /\ last' = Return("Update", <<"payload">>, "payload",
                                      <<>>, <<>>)
                    /\ UNCHANGED <<d, remote, nextId>>
           ELSE IF url.err
               THEN /\ last' = Return("Update", <<"payload", "url">>, "url",
                                      <<>>, <<>>)
                    /\ UNCHANGED <<d, remote, nextId>>
           ELSE /\ last' = Return("Update", <<"payload", "url", "transport">>,
                                  IF updated.err THEN "transport" ELSE "",
                                  <<payload.bytes>>, <<url.url>>)
                /\ d' = updated.d
                /\ remote' = IF updated.err THEN remote
                             ELSE <<[id |-> d.id, payload |-> payload.bytes]>>
                /\ UNCHANGED nextId

\* a Delete that calls the transport although the URL could not be built
singlevaluechartDelete_IgnoresURLError(apiOk, transportOk) ==
    /\ d.id # <<>>
    /\ LET url == buildURL(apiOk, <<CHART_API_PATH, d.id>>)
           deleted == resourceDelete(transportOk, d)
       IN  /\ last' = Return("Delete", <<"url", "transport">>,
                             IF url.err THEN "url"
                             ELSE IF deleted.err THEN "transport" ELSE "",
                             <<>>, <<url.url>>)
           /\ d' = deleted.d
           /\ remote' = IF deleted.err THEN remote ELSE <<>>
           /\ UNCHANGED nextId

singlevaluechartDelete(apiOk, transportOk) ==
    /\ d.id # <<>>
    /\ LET url == buildURL(apiOk, <<CHART_API_PATH, d.id>>)
           deleted == resourceDelete(transportOk, d)
       IN  IF url.err
               THEN /\ last' = Return("Delete", <<"url">>, "url", <<>>, <<>>)
                    /\ UNCHANGED <<d, remote, nextId>>
           ELSE /\ last' = Return("Delete", <<"url", "transport">>,
                                  IF deleted.err THEN "transport" ELSE "",
                                  <<>>, <<url.url>>)
                /\ d' = deleted.d
                /\ remote' = IF deleted.err THEN remote ELSE <<>>
                /\ UNCHANGED nextId

\* the orchestrator loads the configured field values into the ResourceData
\* before it calls a handler; identifier and computed fields are kept
Configure(c) ==
    /\ d' = [f \in DOMAIN d |-> IF f \in DOMAIN c THEN c[f] ELSE d[f]]
    /\ d' # d
    /\ last' = NoCall
    /\ UNCHANGED <<remote, nextId>>

Create ==
    \E marshalOk, apiOk, transportOk, appOk \in BOOLEAN : \E t \in 1..MaxTime :
        singlevaluechartCreate(marshalOk, apiOk, transportOk, appOk, t)

Read ==
    \E apiOk, transportOk \in BOOLEAN : \E t \in 1..MaxTime :
        singlevaluechartRead(apiOk, transportOk, t)

Update ==
    \E marshalOk, apiOk, transportOk \in BOOLEAN : \E t \in 1..MaxTime :
        singlevaluechartUpdate(marshalOk, apiOk, transportOk, t)

Delete ==
    \E apiOk, transportOk \in BOOLEAN : singlevaluechartDelete(apiOk, transportOk)

Reconfigure == \E c \in LifecycleConfigs : Configure(c)

Init ==
    /\ d \in {NewResourceData(c) : c \in LifecycleConfigs}
    /\ last = NoCall
    /\ remote = <<>>
    /\ nextId = 1

Next == Create \/ Read \/ Update \/ Delete \/ Reconfigure

Spec == Init /\ [][Next]_vars

(***************************************************************************)
(* Payload construction on its own, over every configuration               *)
(***************************************************************************)
InitPayload ==
    /\ d \in {NewResourceData(c) : c \in Configs}
    /\ last = NoCall
    /\ remote = <<>>
    /\ nextId = 1

BuildPayload ==
    /\ last = NoCall
    /\ last' = Return("Payload", <<"payload">>, "",
                      <<getPayloadSingleValueChart(d)>>, <<>>)
    /\ UNCHANGED <<d, remote, nextId>>

NextPayload == BuildPayload

SpecPayload == InitPayload /\ [][NextPayload]_vars

(***************************************************************************)
(* Properties of payload construction (checked under SpecPayload)          *)
(***************************************************************************)
Built == last.op = "Payload"
Payload == last.payload[1]
Options == Payload["options"]
Has(m, key) == key \in DOMAIN m

\* the optional fields read with GetOk, and the key each one is sent under
OptionKey ==
    [unit_prefix |-> "unitPrefix",
     color_by |-> "colorBy",
     max_delay |-> "programOptions",
     refresh_interval |-> "refreshInterval",
     max_precision |-> "maximumPrecision",
     secondary_visualization |-> "secondaryVisualization"]

AllOptionalUnset ==
    /\ \A f \in DOMAIN OptionKey : d[f] = <<>>
    /\ d.description = <<>>
    /\ d.is_timestamp_hidden = <<>>
    /\ d.show_spark_line = <<>>

C3_AsStated ==
    Built /\ d.color_by # <<>> =>
        IF d.color_by[1] = "Scale"
            THEN /\ Has(Options, "colorScale2")
                 /\ Options["colorScale2"] = getColorScaleOptions(d)
                 /\ ~Has(Options, "colorBy")
            ELSE /\ Has(Options, "colorBy")
                 /\ Options["colorBy"] = d.color_by[1]
                 /\ ~Has(Options, "colorScale2")

\* C3 amended: color_by = "Scale" with at least one color_scale entry sends
\* both colorBy = "Scale" and colorScale2 built from color_scale; "Scale"
\* with no color_scale entry sends neither key; any other non-empty value is
\* sent as colorBy without colorScale2; unset or "" sends neither key.
C3_ColorBySelector ==
    Built =>
        IF d.color_by = <<>> \/ d.color_by = <<"">>
            THEN ~Has(Options, "colorBy") /\ ~Has(Options, "colorScale2")
        ELSE IF d.color_by[1] = "Scale"
            THEN IF d.color_scale[1] # {}
                     THEN /\ Has(Options, "colorBy")
                          /\ Options["colorBy"] = "Scale"
                          /\ Has(Options, "colorScale2")
                          /\ Options["colorScale2"] = getColorScaleOptions(d)
                          /\ Len(Options["colorScale2"]) =
                                 Cardinality(d.color_scale[1])
                     ELSE /\ ~Has(Options, "colorBy")
                          /\ ~Has(Options, "colorScale2")
        ELSE /\ Has(Options, "colorBy")
             /\ Options["colorBy"] = d.color_by[1]
             /\ ~Has(Options, "colorScale2")

C3_Witness ==
    /\ Built
    /\ d.color_by = <<"Scale">>
    /\ d.color_scale[1] # {}
    /\ Has(Options, "colorScale2")

\* C4: a max_delay or refresh_interval that is in the payload is sent as the
\* local value times 1000 (maxDelay / refreshInterval divided by 1000 gives
\* back the local value, without remainder).
C4_TimesThousand ==
    Built =>
        /\ Has(Options, "programOptions") =>
               /\ Options["programOptions"]["maxDelay"] \div 1000
                      = d.max_delay[1]
               /\ Options["programOptions"]["maxDelay"] % 1000 = 0
        /\ Has(Options, "refreshInterval") =>
               /\ Options["refreshInterval"] \div 1000 = d.refresh_interval[1]
               /\ Options["refreshInterval"] % 1000 = 0

\* C5: a payload built with an optional scalar explicitly set to the zero
\* value of its type differs from the payload built with that field unset.
C5_ZeroDiffersFromUnset ==
    Built =>
        \A f \in {"max_delay", "refresh_interval", "max_precision",
                  "description", "unit_prefix"} :
            d[f] = <<ZeroValue(f)>> =>
                Payload # getPayloadSingleValueChart([d EXCEPT ![f] = <<>>])

\* C6: with no viz_options entry there is no publishLabelOptions, with no
\* color_scale entry there is no colorScale2, and either key, when present,
\* holds a non-empty list.
C6_EmptyBlocksOmitted ==
    Built =>
        /\ d.viz_options[1] = {} => ~Has(Options, "publishLabelOptions")
        /\ d.color_scale[1] = {} => ~Has(Options, "colorScale2")
        /\ Has(Options, "publishLabelOptions") =>
               Len(Options["publishLabelOptions"]) > 0
        /\ Has(Options, "colorScale2") => Len(Options["colorScale2"]) > 0

C6_Witness ==
    /\ Built
    /\ d.viz_options[1] = {}
    /\ d.color_scale[1] = {}
    /\ d.color_by = <<"Scale">>
    /\ ~Has(Options, "publishLabelOptions")

\* the input of the end-to-end scenario
EndToEndInput ==
    /\ d.name = <<"x">>
    /\ d.program_text = <<"data('cpu').publish()">>
    /\ d.max_delay = <<5>>
    /\ d.show_spark_line = <<TRUE>>
    /\ \A f \in DOMAIN d \ {"name", "program_text", "max_delay",
                            "show_spark_line", "color_scale", "viz_options"} :
           d[f] = <<>>
    /\ d.color_scale[1] = {}
    /\ d.viz_options[1] = {}

EndToEndOptions ==
    ("type" :> "SingleValue")
    @@ ("programOptions" :> ("maxDelay" :> 5000))
    @@ ("timestampHidden" :> FALSE)
    @@ ("showSparkLine" :> TRUE)

C10_OptionsAlwaysPresent ==
    Built =>
        /\ Has(Payload, "options")
        /\ Has(Options, "type") /\ Options["type"] = "SingleValue"
        /\ Has(Options, "timestampHidden")
        /\ Options["timestampHidden"] = Get(d, "is_timestamp_hidden")
        /\ Has(Options, "showSparkLine")
        /\ Options["showSparkLine"] = Get(d, "show_spark_line")
        /\ Has(Options, "programOptions") =>
               DOMAIN Options["programOptions"] = {"maxDelay"}
        /\ Has(Options, "programOptions") <=>
               (d.max_delay # <<>> /\ d.max_delay # <<0>>)

C10_Witness ==
    /\ Built
    /\ AllOptionalUnset
    /\ d.viz_options[1] = {}
    /\ DOMAIN Options = {"type", "timestampHidden", "showSparkLine"}

(***************************************************************************)
(* Properties of the handlers (checked under Spec)                         *)
(***************************************************************************)
CalledTransport == \E i \in 1..Len(last.steps) : last.steps[i] = "transport"

\* C2: after a Create that returned an error the resource instance has no
\* identifier and no computed url.
C2_FailedCreateLeavesUnmanaged ==
    last.op = "Create" /\ last.err # "" => d.id = <<>> /\ d.url = <<>>

\* C8: the payload Update submits is the payload built from the current
\* field values, the one Create would submit for them, and it goes to the
\* URL of the instance's identifier; Create's goes to the collection URL.
C8_UpdateIsFullReplace ==
    /\ last.op = "Update" /\ CalledTransport =>
           /\ last.payload = <<getPayloadSingleValueChart(d)>>
           /\ last.payload = <<CreateRequest(d).payload>>
           /\ last.url[1].path = <<CHART_API_PATH, d.id>>
           /\ d.id # <<>>
           /\ last.err = "" => remote = <<[id |-> d.id,
                                           payload |-> last.payload[1]]>>
    /\ last.op = "Create" /\ CalledTransport =>
           /\ last.payload = <<getPayloadSingleValueChart(d)>>
           /\ last.url[1].path = <<CHART_API_PATH>>

\* a successful Update of a managed instance
C8_Witness ==
    /\ last.op = "Update"
    /\ CalledTransport
    /\ last.err = ""
    /\ d.description = <<"desc">>
    /\ d.max_delay = <<5>>
    /\ remote # <<>> /\ remote[1].payload = getPayloadSingleValueChart(d)

\* the order of the steps of each handler
StepsOf(op) ==
    IF op = "Create" THEN <<"payload", "url", "transport", "appurl">>
    ELSE IF op = "Update" THEN <<"payload", "url", "transport">>
    ELSE <<"url", "transport">>

IsPrefix(s, t) == Len(s) <= Len(t) /\ \A i \in 1..Len(s) : s[i] = t[i]

StepsInOrder ==
    last.op \in {"Create", "Read", "Update", "Delete"} =>
        /\ Len(last.steps) > 0
        /\ IsPrefix(last.steps, StepsOf(last.op))
        /\ Cardinality({i \in 1..Len(last.steps) :
                           last.steps[i] = "transport"}) <= 1
        /\ last.err \in {"payload", "url"} =>
               /\ ~CalledTransport
               /\ last.steps[Len(last.steps)] = last.err
               /\ last.payload = <<>> /\ last.url = <<>>
        /\ CalledTransport => last.url # <<>>

FailedBeforeTransportChangesNothing ==
    last'.op \in {"Create", "Read", "Update", "Delete"}
    /\ last'.err \in {"payload", "url"}
        => d' = d /\ remote' = remote

\* C9: each handler runs its steps in the fixed order, calls the transport
\* at most once, and when payload or API URL construction fails it returns
\* without a transport call, leaving identifier and field values as they
\* were.
C9_StepOrder == [](StepsInOrder) /\ [][FailedBeforeTransportChangesNothing]_vars

C9_Witness ==
    /\ last.op = "Update"
    /\ last.err = "url"
    /\ last.steps = <<"payload", "url">>
    /\ d.id # <<>>

====
